---- MODULE Spec2Model ----
(***************************************************************************)
(* Elyterra backend: the tier-gated access-control, quota and lead/fee      *)
(* locking logic of the services, over the entity store (users, projects,   *)
(* leads, messages, documents) and the remote file storage (files).  A      *)
(* handler is one action; where requests interleave at their store reads    *)
(* and writes, inflight holds each request's position.                      *)
(*                                                                          *)
(* Python values: Optional[T] is the sequence <<>> (None) or <<x>>; an      *)
(* HTTPException is a result whose kind names the status code; an           *)
(* exception that is no HTTPException surfaces as INTERNAL_SERVER_ERROR.    *)
(***************************************************************************)
EXTENDS Integers, Sequences, FiniteSets, TLC

VARIABLES users, projects, leads, messages, documents, files, inflight, result

vars == <<users, projects, leads, messages, documents, files, inflight, result>>

None == <<>>

Some(x) == <<x>>

\* Python truthiness of an Optional[str]: None and "" are falsy
TruthyStr(o) == o # None /\ o[1] # ""

\* Python truthiness of an Optional[int]: None and 0 are falsy
TruthyInt(o) == o # None /\ o[1] # 0

(***************************************************************************)
(* Bounds of the model                                                      *)
(***************************************************************************)
MaxProjects == 2

MaxQuotaProjects == 11

(***************************************************************************)
(* str.lower() on the tier spellings the model draws from                   *)
(***************************************************************************)
TierStrings ==
    {"launch", "Launch", "growth", "Growth", "elite", "ELITE",
     "explorer", "Explorer", "insider", "Insider",
     "capital partner", "Capital Partner", "capital_partner", "Capital_Partner",
     "platinum", ""}

Lower(s) ==
    CASE s = "Launch" -> "launch"
      [] s = "Growth" -> "growth"
      [] s = "ELITE" -> "elite"
      [] s = "Explorer" -> "explorer"
      [] s = "Insider" -> "insider"
      [] s = "Capital Partner" -> "capital partner"
      [] s = "Capital_Partner" -> "capital_partner"
      [] OTHER -> s

OptTiers == {None} \cup {Some(t) : t \in TierStrings}

(***************************************************************************)
(* Users of the store.  Role, tier and subscription_status are written by   *)
(* registration and by the billing collaborator, not by the services below. *)
(***************************************************************************)
User(role, tier, sub) == [role |-> role, tier |-> tier, subscription_status |-> sub]

BaseUsers ==
    <<User("developer", None, "active"),
      User("developer", Some("Growth"), "trial"),
      User("investor", Some("Insider"), "none"),
      User("buyer", None, "none"),
      User("agency", None, "none"),
      User("admin", None, "none"),
      User("developer", Some("elite"), "expired")>>

UserIds == DOMAIN BaseUsers

(***************************************************************************)
(* Results of a request                                                     *)
(***************************************************************************)
Result(op, user, kind, detail, id, args) ==
    [op |-> op, user |-> user, kind |-> kind, detail |-> detail, id |-> id, args |-> args]

NoResult == Result("none", 0, "OK", "", 0, <<>>)

\* The outcome of a call: the exception it raises ("" for none) and its value
Call(raised, value) == [raised |-> raised, value |-> value]

(***************************************************************************)
(* ProjectRepository                                                        *)
(***************************************************************************)
ProjectRepository_find_by_id(ps, project_id) ==
    IF project_id \in DOMAIN ps THEN Some(ps[project_id]) ELSE None

\* Mutant: the count forgets to leave out the archived projects
count_by_developer_all(ps, developer_id) ==
    Cardinality({i \in DOMAIN ps : ps[i].developer_id = developer_id})

count_by_developer(ps, developer_id) ==
    Cardinality({i \in DOMAIN ps :
                    ps[i].developer_id = developer_id /\ ps[i].status # "archived"})

ProjectRepository_create(ps, project_data) ==
    Append(ps, project_data)

ProjectRepository_delete(ps, project_id) ==
    IF project_id \in DOMAIN ps
    THEN [ps EXCEPT ![project_id].status = "archived"]
    ELSE ps

(***************************************************************************)
(* ProjectService: quota                                                    *)
(***************************************************************************)
\* TIER_QUOTAS: None is "unlimited"
TIER_QUOTAS == [launch |-> Some(3), growth |-> Some(10), elite |-> None]

\* TIER_QUOTAS.get(tier, 3)
QuotaOf(tier) ==
    IF tier \in DOMAIN TIER_QUOTAS THEN TIER_QUOTAS[tier] ELSE Some(3)

QuotaTier(developer) ==
    IF TruthyStr(developer.tier) THEN Lower(developer.tier[1]) ELSE "launch"

\* Mutant: the quota is not enforced
check_project_quota_off(ps, developer_id, developer) == TRUE

\* TRUE when _check_project_quota returns, FALSE when it raises 403
check_project_quota(ps, developer_id, developer) ==
    LET quota == QuotaOf(QuotaTier(developer))
    IN  IF quota = None
        THEN TRUE
        ELSE ~(count_by_developer(ps, developer_id) >= quota[1])

create_project_result(ps, u, developer, access_level) ==
    IF developer.role # "developer"
    THEN Result("create_project", u, "FORBIDDEN", "Only developers can create projects", 0, <<>>)
    ELSE IF developer.subscription_status \notin {"active", "trial"}
    THEN Result("create_project", u, "PAYMENT_REQUIRED", "Active subscription required to create projects", 0, <<>>)
    ELSE IF ~check_project_quota(ps, u, developer)
    THEN Result("create_project", u, "FORBIDDEN", "Project quota exceeded", 0, <<>>)
    ELSE Result("create_project", u, "OK", "", Len(ps) + 1, <<>>)

CreateProject(u, access_level, bound) ==
    LET r == create_project_result(projects, u, users[u], access_level)
    IN  /\ r.kind = "OK" => Len(projects) < bound
        /\ result' = r
        /\ projects' =
              IF r.kind = "OK"
              THEN ProjectRepository_create(projects,
                      [developer_id |-> u,
                       status |-> "draft",
                       access_level |-> access_level,
                       visibility_score |-> 0,
                       roi_estimate |-> None,
                       published_at |-> None])
              ELSE projects
        /\ UNCHANGED <<users, leads, messages, documents, files, inflight>>

\* Mutant: the owner is not checked
delete_project_result_unowned(ps, u, project_id) ==
    LET project == ProjectRepository_find_by_id(ps, project_id)
    IN  IF project = None
        THEN Result("delete_project", u, "NOT_FOUND", "Project not found", project_id, <<>>)
        ELSE Result("delete_project", u, "OK", "Project archived successfully", project_id, <<>>)

delete_project_result(ps, u, project_id) ==
    LET project == ProjectRepository_find_by_id(ps, project_id)
    IN  IF project = None
        THEN Result("delete_project", u, "NOT_FOUND", "Project not found", project_id, <<>>)
        ELSE IF project[1].developer_id # u
        THEN Result("delete_project", u, "FORBIDDEN", "You can only delete your own projects", project_id, <<>>)
        ELSE Result("delete_project", u, "OK", "Project archived successfully", project_id, <<>>)

DeleteProject(u, project_id) ==
    LET r == delete_project_result(projects, u, project_id)
    IN  /\ result' = r
        /\ projects' = IF r.kind = "OK"
                       THEN ProjectRepository_delete(projects, project_id)
                       ELSE projects
        /\ UNCHANGED <<users, leads, messages, documents, files, inflight>>

(***************************************************************************)
(* ProjectService: publish_project and update_project                       *)
(***************************************************************************)
\* Mutant: the timestamp is written on every publication
ProjectRepository_update_status_restamp(ps, project_id, new_status, now) ==
    IF project_id \notin DOMAIN ps
    THEN ps
    ELSE [ps EXCEPT ![project_id].status = new_status,
                    ![project_id].published_at =
                        IF new_status = "published"
                        THEN Some(now)
                        ELSE @]

\* ProjectRepository.update_status(project_id, new_status); now is the value of
\* datetime.utcnow(), which is never falsy
ProjectRepository_update_status(ps, project_id, new_status, now) ==
    IF project_id \notin DOMAIN ps
    THEN ps
    ELSE [ps EXCEPT ![project_id].status = new_status,
                    ![project_id].published_at =
                        IF new_status = "published" /\ ps[project_id].published_at = None
                        THEN Some(now)
                        ELSE @]

\* ProjectRepository.update(project_id, update_data): sets the keys that carry
\* a value; ProjectUpdateDTO has no status, published_at or developer_id
ProjectRepository_update(ps, project_id, update_data) ==
    IF project_id \notin DOMAIN ps
    THEN ps
    ELSE [ps EXCEPT ![project_id].access_level =
                        IF update_data.access_level # None
                        THEN update_data.access_level[1]
                        ELSE @]

\* Mutant: the subscription is not looked at
publish_project_result_ungated(ps, u, developer, project_id) ==
    LET project == ProjectRepository_find_by_id(ps, project_id)
    IN  IF project = None
        THEN Result("publish_project", u, "NOT_FOUND", "Project not found", project_id, <<>>)
        ELSE IF project[1].developer_id # u
        THEN Result("publish_project", u, "FORBIDDEN", "You can only publish your own projects", project_id, <<>>)
        ELSE Result("publish_project", u, "OK", "", project_id, <<>>)

publish_project_result(ps, u, developer, project_id) ==
    LET project == ProjectRepository_find_by_id(ps, project_id)
    IN  IF project = None
        THEN Result("publish_project", u, "NOT_FOUND", "Project not found", project_id, <<>>)
        ELSE IF project[1].developer_id # u
        THEN Result("publish_project", u, "FORBIDDEN", "You can only publish your own projects", project_id, <<>>)
        ELSE IF developer.subscription_status \notin {"active", "trial"}
        THEN Result("publish_project", u, "PAYMENT_REQUIRED", "Active subscription required to publish projects", project_id, <<>>)
        ELSE Result("publish_project", u, "OK", "", project_id, <<>>)

PublishProject(u, project_id, new_status, now) ==
    LET r == publish_project_result(projects, u, users[u], project_id)
    IN  /\ result' = [r EXCEPT !.args = [new_status |-> new_status, now |-> now]]
        /\ projects' = IF r.kind = "OK"
                       THEN ProjectRepository_update_status(projects, project_id, new_status, now)
                       ELSE projects
        /\ UNCHANGED <<users, leads, messages, documents, files, inflight>>

update_project_result(ps, u, project_id) ==
    LET project == ProjectRepository_find_by_id(ps, project_id)
    IN  IF project = None
        THEN Result("update_project", u, "NOT_FOUND", "Project not found", project_id, <<>>)
        ELSE IF project[1].developer_id # u
        THEN Result("update_project", u, "FORBIDDEN", "You can only update your own projects", project_id, <<>>)
        ELSE Result("update_project", u, "OK", "", project_id, <<>>)

UpdateProject(u, project_id, data) ==
    LET r == update_project_result(projects, u, project_id)
    IN  /\ result' = [r EXCEPT !.args = data]
        /\ projects' = IF r.kind = "OK"
                       THEN ProjectRepository_update(projects, project_id, data)
                       ELSE projects
        /\ UNCHANGED <<users, leads, messages, documents, files, inflight>>

\* visibility_score is Numeric(5, 2): the store refuses a value of 1000 or more
NumericLimit == 1000

\* ProjectRepository.increment_visibility_score(project_id, amount): the new
\* value is written at the commit, which raises when the column overflows
ProjectRepository_increment_visibility_score(ps, project_id, amount) ==
    IF project_id \notin DOMAIN ps
    THEN Call("", ps)
    ELSE IF ps[project_id].visibility_score + amount >= NumericLimit
    THEN Call("DataError", ps)
    ELSE Call("", [ps EXCEPT ![project_id].visibility_score = @ + amount])

\* Mutant: the endpoint accepts any amount
increment_visibility_accepts_any(amount) == TRUE

\* amount: int = Query(..., ge=1, le=1000)
increment_visibility_accepts(amount) == amount >= 1 /\ amount <= 1000

\* PATCH /projects/{project_id}/visibility, behind require_role("admin"), and
\* ProjectService.increment_visibility(project_id, amount)
IncrementVisibility(u, project_id, amount) ==
    LET updated == ProjectRepository_increment_visibility_score(projects, project_id, amount)
        args == [amount |-> amount]
    IN  /\ result' =
              IF users[u].role # "admin"
              THEN Result("increment_visibility", u, "FORBIDDEN", "Access denied. Required role: admin", project_id, args)
              ELSE IF ~increment_visibility_accepts(amount)
              THEN Result("increment_visibility", u, "UNPROCESSABLE_ENTITY", "amount", project_id, args)
              ELSE IF updated.raised # ""
              THEN Result("increment_visibility", u, "INTERNAL_SERVER_ERROR", updated.raised, project_id, args)
              ELSE IF project_id \notin DOMAIN projects
              THEN Result("increment_visibility", u, "NOT_FOUND", "Project not found", project_id, args)
              ELSE Result("increment_visibility", u, "OK", "", project_id, args)
        /\ projects' = IF users[u].role = "admin" /\ increment_visibility_accepts(amount)
                       THEN updated.value
                       ELSE projects
        /\ UNCHANGED <<users, leads, messages, documents, files, inflight>>

\* subscription_status is written by the billing collaborator, not by a
\* handler of the services
SubscriptionChanges(u, subscription_status) ==
    /\ users[u].subscription_status # subscription_status
    /\ users' = [users EXCEPT ![u].subscription_status = subscription_status]
    /\ result' = Result("subscription", u, "OK", "", 0, <<>>)
    /\ UNCHANGED <<projects, leads, messages, documents, files, inflight>>

(***************************************************************************)
(* UserRepository.  The class defines exactly these methods; looking up any *)
(* other attribute on an instance raises AttributeError.                    *)
(***************************************************************************)
UserRepositoryMethods ==
    {"create", "get_by_id", "get_by_email", "get_by_username", "get_all",
     "count", "update", "delete", "exists_by_email", "exists_by_username"}

get_by_id(us, user_id) ==
    IF user_id \in DOMAIN us
    THEN Some([id |-> user_id,
               role |-> us[user_id].role,
               tier |-> us[user_id].tier,
               subscription_status |-> us[user_id].subscription_status])
    ELSE None

\* self.user_repository.find_by_id(user_id), the call create_lead makes.  Were
\* the attribute defined, the lookup by id of the class is get_by_id.
UserRepository_find_by_id(us, user_id) ==
    IF "find_by_id" \in UserRepositoryMethods
    THEN Call("", get_by_id(us, user_id))
    ELSE Call("AttributeError", None)

(***************************************************************************)
(* get_client_ip.  A header value is the list of its comma-separated        *)
(* entries; <<"">> is the empty header.                                     *)
(***************************************************************************)
Strip(s) ==
    CASE s = " " -> ""
      [] s = " 10.0.0.1" -> "10.0.0.1"
      [] s = "10.0.0.2 " -> "10.0.0.2"
      [] OTHER -> s

HeaderTruthy(h) == h # None /\ h[1] # <<"">>

get_client_ip(request) ==
    IF HeaderTruthy(request.x_forwarded_for)
    THEN Some(Strip(request.x_forwarded_for[1][1]))
    ELSE IF HeaderTruthy(request.x_real_ip)
    THEN Some(Strip(request.x_real_ip[1][1]))
    ELSE IF request.client # None
    THEN request.client
    ELSE None

Request(xff, xri, client) == [x_forwarded_for |-> xff, x_real_ip |-> xri, client |-> client]

(***************************************************************************)
(* LeadRepository                                                           *)
(***************************************************************************)
LeadRepository_find_by_id(ls, lead_id) ==
    IF lead_id \in DOMAIN ls THEN Some(ls[lead_id]) ELSE None

\* The rows the query of find_existing_lead selects; .first() returns one of
\* them, or None when there is none.
find_existing_lead(ls, initiator_id, recipient_id, project_id, listing_id) ==
    {i \in DOMAIN ls :
        /\ ls[i].initiator_id = initiator_id
        /\ ls[i].recipient_id = recipient_id
        /\ TruthyInt(project_id) => ls[i].project_id = project_id
        /\ TruthyInt(listing_id) => ls[i].listing_id = listing_id}

LeadRepository_update_status(ls, lead_id, new_status) ==
    IF lead_id \in DOMAIN ls
    THEN [ls EXCEPT ![lead_id].status = new_status]
    ELSE ls

\* The mapped attributes of Lead and of Message (their columns, the base
\* columns and their relationships)
LeadAttributes ==
    {"id", "created_at", "updated_at", "initiator_id", "recipient_id", "project_id",
     "listing_id", "channel", "status", "first_contact_ip", "initiator", "recipient",
     "project", "listing", "messages", "deals", "lead_channels"}

MessageAttributes ==
    {"id", "created_at", "updated_at", "lead_id", "sender_id", "content", "is_read",
     "ip_address", "user_agent", "lead"}

\* Lead(**lead_data), Message(**message_data): the constructor of a mapped class
\* raises TypeError for a keyword that is not an attribute of the class
LeadRepository_create(ls, lead_data) ==
    IF DOMAIN lead_data \subseteq LeadAttributes
    THEN Call("", Append(ls, lead_data))
    ELSE Call("TypeError", ls)

LeadRepository_create_message(ms, message_data) ==
    IF DOMAIN message_data \subseteq MessageAttributes
    THEN Call("", Append(ms, message_data))
    ELSE Call("TypeError", ms)

\* LeadRepository.find_messages_by_lead: joins Message.sender and orders by
\* Message.sent_at; the stored order is the order of sending
find_messages_by_lead(ms, lead_id) ==
    IF {"sender", "sent_at"} \subseteq MessageAttributes
    THEN Call("", SelectSeq(ms, LAMBDA m : m.lead_id = lead_id))
    ELSE Call("AttributeError", <<>>)

\* LeadService._create_message_internal(lead_id, sender_id, content, ip_address)
create_message_internal(ms, lead_id, sender_id, content, ip_address) ==
    LeadRepository_create_message(ms,
        [lead_id |-> lead_id,
         sender_id |-> sender_id,
         content |-> content,
         sent_from_ip |-> ip_address])

(***************************************************************************)
(* LeadService                                                              *)
(***************************************************************************)
\* Success fee rates by tier, in percent
TIER_FEE_RATES ==
    [t \in {"launch", "growth", "elite", "explorer", "insider", "capital partner"} |->
        CASE t = "launch" -> 5
          [] t = "growth" -> 4
          [] t = "elite" -> 3
          [] OTHER -> 0]

\* TIER_FEE_RATES.get(tier, 5.0)
FeeRateOf(tier) ==
    IF tier \in DOMAIN TIER_FEE_RATES THEN TIER_FEE_RATES[tier] ELSE 5

\* Lock tier and fee rates at time of contact
LockTiers(initiator_tier, recipient_tier) ==
    LET it == IF TruthyStr(initiator_tier) THEN initiator_tier[1] ELSE "explorer"
        rt == IF TruthyStr(recipient_tier) THEN recipient_tier[1] ELSE "launch"
    IN  [initiator_tier_locked |-> it,
         recipient_tier_locked |-> rt,
         success_fee_rate_locked |-> FeeRateOf(Lower(rt))]

LeadResult(u, kind, detail, id, data) == Result("create_lead", u, kind, detail, id, data)

\* create_lead: the response and the rows it inserts
create_lead(us, ps, ls, u, data) ==
    LET initiator == us[u]
        lookup == UserRepository_find_by_id(us, data.recipient_id)
        recipient == lookup.value
        project == ProjectRepository_find_by_id(ps, data.project_id[1])
        client_ip == get_client_ip(data.request)
        locked == LockTiers(initiator.tier, recipient[1].tier)
        lead == [initiator_id |-> u,
                 recipient_id |-> recipient[1].id,
                 project_id |-> data.project_id,
                 listing_id |-> data.listing_id,
                 status |-> "active",
                 origin |-> "platform",
                 first_contact_ip |-> client_ip[1],
                 initiator_tier_locked |-> locked.initiator_tier_locked,
                 recipient_tier_locked |-> locked.recipient_tier_locked,
                 success_fee_rate_locked |-> locked.success_fee_rate_locked]
        created == LeadRepository_create(ls, lead)
        sent == create_message_internal(<<>>, Len(ls) + 1, u, data.message[1], client_ip)
        Fail(kind, detail) ==
            [response |-> LeadResult(u, kind, detail, 0, data), leads |-> <<>>, messages |-> <<>>]
    IN  IF initiator.role \notin {"investor", "buyer"}
        THEN Fail("FORBIDDEN", "Only investors and buyers can initiate leads")
        ELSE IF lookup.raised # ""
        THEN Fail("INTERNAL_SERVER_ERROR", lookup.raised)
        ELSE IF recipient = None
        THEN Fail("NOT_FOUND", "Recipient user not found")
        ELSE IF recipient[1].role \notin {"developer", "agency"}
        THEN Fail("BAD_REQUEST", "Can only contact developers or agencies")
        ELSE IF TruthyInt(data.project_id) /\ project = None
        THEN Fail("NOT_FOUND", "Project not found")
        ELSE IF TruthyInt(data.project_id) /\ project[1].developer_id # recipient[1].id
        THEN Fail("BAD_REQUEST", "Project does not belong to recipient")
        ELSE IF find_existing_lead(ls, u, recipient[1].id, data.project_id, data.listing_id) # {}
        THEN Fail("CONFLICT", "Lead already exists between these users for this project/listing")
        ELSE IF ~TruthyStr(client_ip)
        THEN Fail("BAD_REQUEST", "Unable to determine client IP address")
        ELSE IF created.raised # ""
        THEN Fail("INTERNAL_SERVER_ERROR", created.raised)
        ELSE IF TruthyStr(data.message) /\ sent.raised # ""
        THEN [response |-> LeadResult(u, "INTERNAL_SERVER_ERROR", sent.raised, Len(ls) + 1, data),
              leads |-> <<lead>>,
              messages |-> <<>>]
        ELSE [response |-> LeadResult(u, "OK", "", Len(ls) + 1, data),
              leads |-> <<lead>>,
              messages |-> IF TruthyStr(data.message) THEN sent.value ELSE <<>>]

CreateLead(u, data) ==
    LET r == create_lead(users, projects, leads, u, data)
    IN  /\ result' = r.response
        /\ leads' = leads \o r.leads
        /\ messages' = messages \o r.messages
        /\ UNCHANGED <<users, projects, documents, files, inflight>>

\* The participant check shared by get_lead, send_message and get_messages
lead_access(ls, op, u, lead_id) ==
    LET lead == LeadRepository_find_by_id(ls, lead_id)
    IN  IF lead = None
        THEN Result(op, u, "NOT_FOUND", "Lead not found", lead_id, <<>>)
        ELSE IF lead[1].initiator_id # u /\ lead[1].recipient_id # u
        THEN Result(op, u, "FORBIDDEN", "You don't have permission", lead_id, <<>>)
        ELSE Result(op, u, "OK", "", lead_id, <<>>)

\* get_lead answers with _to_response_dto(lead), which reads lead.origin
GetLead(u, lead_id) ==
    LET r == lead_access(leads, "get_lead", u, lead_id)
    IN  /\ result' = IF r.kind = "OK" /\ "origin" \notin LeadAttributes
                         THEN Result("get_lead", u, "INTERNAL_SERVER_ERROR", "AttributeError", lead_id, <<>>)
                         ELSE r
        /\ UNCHANGED <<users, projects, leads, messages, documents, files, inflight>>

SendMessage(u, lead_id, content, request) ==
    LET r == lead_access(leads, "send_message", u, lead_id)
        sent == create_message_internal(messages, lead_id, u, content, get_client_ip(request))
    IN  /\ result' =
              IF r.kind # "OK"
              THEN [r EXCEPT !.args = [request |-> request]]
              ELSE IF sent.raised # ""
              THEN Result("send_message", u, "INTERNAL_SERVER_ERROR", sent.raised, lead_id,
                          [request |-> request])
              ELSE [r EXCEPT !.args = [request |-> request]]
        /\ messages' = IF r.kind = "OK" THEN sent.value ELSE messages
        /\ UNCHANGED <<users, projects, leads, documents, files, inflight>>

GetMessages(u, lead_id) ==
    LET r == lead_access(leads, "get_messages", u, lead_id)
        found == find_messages_by_lead(messages, lead_id)
    IN  /\ result' =
              IF r.kind # "OK"
              THEN r
              ELSE IF found.raised # ""
              THEN Result("get_messages", u, "INTERNAL_SERVER_ERROR", found.raised, lead_id, <<>>)
              ELSE [r EXCEPT !.args = found.value]
        /\ UNCHANGED <<users, projects, leads, messages, documents, files, inflight>>

(***************************************************************************)
(* Visibility: ProjectService and DocumentService                           *)
(***************************************************************************)
AccessLevels == {"public", "verified_only", "pre_launch", "investor_only"}

DocumentAccessLevels == {"public", "verified_only", "investor_only"}

\* ProjectService._get_allowed_access_levels without its developer branch
\* (lines 278-280): a developer falls through to the default, as in
\* DocumentService._get_allowed_access_levels
ProjectService_get_allowed_access_levels_unified(user) ==
    IF user = None
    THEN {"public"}
    ELSE IF user[1].role = "admin"
    THEN {"public", "verified_only", "pre_launch", "investor_only"}
    ELSE LET tier == IF TruthyStr(user[1].tier) THEN Lower(user[1].tier[1]) ELSE "explorer"
         IN  IF user[1].role = "investor" /\ tier = "explorer"
             THEN {"public"}
             ELSE IF user[1].role = "investor" /\ tier = "insider"
             THEN {"public", "verified_only"}
             ELSE IF user[1].role = "investor" /\ tier = "capital partner"
             THEN {"public", "verified_only", "pre_launch", "investor_only"}
             ELSE {"public"}

\* ProjectService._get_allowed_access_levels(user); user is Optional[User]
ProjectService_get_allowed_access_levels(user) ==
    IF user = None
    THEN {"public"}
    ELSE IF user[1].role = "admin"
    THEN {"public", "verified_only", "pre_launch", "investor_only"}
    ELSE IF user[1].role = "developer"
    THEN {"public", "verified_only", "pre_launch", "investor_only"}
    ELSE LET tier == IF TruthyStr(user[1].tier) THEN Lower(user[1].tier[1]) ELSE "explorer"
         IN  IF user[1].role = "investor" /\ tier = "explorer"
             THEN {"public"}
             ELSE IF user[1].role = "investor" /\ tier = "insider"
             THEN {"public", "verified_only"}
             ELSE IF user[1].role = "investor" /\ tier = "capital partner"
             THEN {"public", "verified_only", "pre_launch", "investor_only"}
             ELSE {"public"}

\* ProjectService._can_access_project(project, user)
can_access_project(project, user) ==
    IF user # None /\ project.developer_id = user[1].id
    THEN TRUE
    ELSE IF user # None /\ user[1].role = "admin"
    THEN TRUE
    ELSE project.access_level \in ProjectService_get_allowed_access_levels(user)

\* DocumentService._get_allowed_access_levels(user, project)
DocumentService_get_allowed_access_levels(user, project) ==
    IF user # None /\ project.developer_id = user[1].id
    THEN {"public", "verified_only", "investor_only"}
    ELSE IF user # None /\ user[1].role = "admin"
    THEN {"public", "verified_only", "investor_only"}
    ELSE IF user # None /\ user[1].role = "investor"
    THEN LET tier == IF TruthyStr(user[1].tier) THEN Lower(user[1].tier[1]) ELSE "explorer"
         IN  IF tier = "explorer"
             THEN {"public"}
             ELSE IF tier = "insider"
             THEN {"public", "verified_only"}
             ELSE IF tier = "capital partner"
             THEN {"public", "verified_only", "investor_only"}
             ELSE {"public"}
    ELSE {"public"}

\* DocumentService._can_access_document(document, user): re-reads the project
can_access_document(ps, document, user) ==
    LET project == ProjectRepository_find_by_id(ps, document.project_id)
    IN  IF project = None
        THEN FALSE
        ELSE document.access_level \in DocumentService_get_allowed_access_levels(user, project[1])

(***************************************************************************)
(* Reads: get_project, search_projects, get_document, list_documents        *)
(***************************************************************************)
MaxPage == 2

MaxPageSize == 2

\* ProjectService.get_project(project_id, user)
get_project(ps, project_id, user) ==
    LET project == ProjectRepository_find_by_id(ps, project_id)
    IN  IF project = None
        THEN [kind |-> "NOT_FOUND", detail |-> "Project not found"]
        ELSE IF ~can_access_project(project[1], user)
        THEN [kind |-> "FORBIDDEN", detail |-> "You don't have permission to view this project"]
        ELSE [kind |-> "OK", detail |-> ""]

\* The rows the query of ProjectRepository.search selects.  status is a
\* string and min_roi an Optional number; a NULL roi_estimate fails the
\* comparison.  The other column filters restrict the rows the same way.
ProjectRepository_search_rows(ps, filters, access_levels) ==
    {i \in DOMAIN ps :
        /\ filters.status # "" => ps[i].status = filters.status
        /\ filters.min_roi # None =>
               (ps[i].roi_estimate # None /\ ps[i].roi_estimate[1] >= filters.min_roi[1])
        /\ access_levels # {} => ps[i].access_level \in access_levels}

\* getattr(Project, sort_field, Project.visibility_score); created_at grows
\* with the id
SortKey(ps, i, sort_by) ==
    IF sort_by = "created_at" THEN i ELSE ps[i].visibility_score

\* The orders ORDER BY may return the rows in: rows of equal key in any order
Orderings(ps, rows, sort_by, sort_order) ==
    {o \in [1 .. Cardinality(rows) -> rows] :
        /\ \A a, b \in DOMAIN o : a # b => o[a] # o[b]
        /\ \A a, b \in DOMAIN o :
              a < b => IF sort_order = "desc"
                       THEN SortKey(ps, o[a], sort_by) >= SortKey(ps, o[b], sort_by)
                       ELSE SortKey(ps, o[a], sort_by) <= SortKey(ps, o[b], sort_by)}

\* query.offset((page - 1) * page_size).limit(page_size)
PageOf(o, page, page_size) ==
    LET offset == (page - 1) * page_size
        last == IF offset + page_size < Len(o) THEN offset + page_size ELSE Len(o)
    IN  IF offset >= Len(o) THEN <<>> ELSE SubSeq(o, offset + 1, last)

ProjectDTO(ps, i) ==
    [id |-> i, status |-> ps[i].status, access_level |-> ps[i].access_level]

\* ProjectService.search_projects(filters, user): the responses it may give
search_projects(ps, filters, user) ==
    LET access_levels == ProjectService_get_allowed_access_levels(user)
        rows == ProjectRepository_search_rows(ps, filters, access_levels)
        total_count == Cardinality(rows)
    IN  {[projects |-> [k \in DOMAIN PageOf(o, filters.page, filters.page_size) |->
                           ProjectDTO(ps, PageOf(o, filters.page, filters.page_size)[k])],
          total |-> total_count,
          page |-> filters.page,
          page_size |-> filters.page_size,
          total_pages |-> (total_count + filters.page_size - 1) \div filters.page_size] :
            o \in Orderings(ps, rows, filters.sort_by, filters.sort_order)}

\* The mapped attributes of ProjectDocument (its columns and the base columns)
ProjectDocumentAttributes ==
    {"id", "created_at", "updated_at", "project_id", "file_url", "doc_type",
     "access_level", "description", "checksum", "project"}

DocumentRepository_find_by_id(ds, document_id) ==
    IF document_id \in DOMAIN ds /\ ~ds[document_id].deleted
    THEN Some(ds[document_id])
    ELSE None

\* DocumentRepository.find_by_project orders by ProjectDocument.uploaded_at
DocumentRepository_find_by_project(ds, project_id, access_levels) ==
    IF "uploaded_at" \in ProjectDocumentAttributes
    THEN Call("", {i \in DOMAIN ds :
                      /\ ~ds[i].deleted
                      /\ ds[i].project_id = project_id
                      /\ access_levels # {} => ds[i].access_level \in access_levels})
    ELSE Call("AttributeError", {})

\* DocumentService.get_document(document_id, user)
get_document(ps, ds, document_id, user) ==
    LET document == DocumentRepository_find_by_id(ds, document_id)
    IN  IF document = None
        THEN [kind |-> "NOT_FOUND", detail |-> "Document not found"]
        ELSE IF ~can_access_document(ps, document[1], user)
        THEN [kind |-> "FORBIDDEN", detail |-> "You don't have permission to access this document"]
        ELSE [kind |-> "OK", detail |-> ""]

\* DocumentService.list_documents(project_id, user)
list_documents(ps, ds, project_id, user) ==
    LET project == ProjectRepository_find_by_id(ps, project_id)
    IN  IF project = None
        THEN [kind |-> "NOT_FOUND", detail |-> "Project not found", documents |-> {}]
        ELSE LET found == DocumentRepository_find_by_project(ds, project_id,
                              DocumentService_get_allowed_access_levels(user, project[1]))
             IN  IF found.raised # ""
                 THEN [kind |-> "INTERNAL_SERVER_ERROR", detail |-> found.raised, documents |-> {}]
                 ELSE [kind |-> "OK", detail |-> "", documents |-> found.value]

ReadResult(op, kind, detail, id, viewer, extra) ==
    Result(op, 0, kind, detail, id, [viewer |-> viewer, extra |-> extra])

GetProject(viewer, project_id) ==
    LET r == get_project(projects, project_id, viewer)
    IN  /\ result' = ReadResult("get_project", r.kind, r.detail, project_id, viewer, <<>>)
        /\ UNCHANGED <<users, projects, leads, messages, documents, files, inflight>>

SearchProjects(viewer, filters) ==
    /\ \E response \in search_projects(projects, filters, viewer) :
          result' = ReadResult("search_projects", "OK", "", 0, viewer,
                               [filters |-> filters, response |-> response])
    /\ UNCHANGED <<users, projects, leads, messages, documents, files, inflight>>

GetDocument(viewer, document_id) ==
    LET r == get_document(projects, documents, document_id, viewer)
    IN  /\ result' = ReadResult("get_document", r.kind, r.detail, document_id, viewer, <<>>)
        /\ UNCHANGED <<users, projects, leads, messages, documents, files, inflight>>

ListDocuments(viewer, project_id) ==
    LET r == list_documents(projects, documents, project_id, viewer)
    IN  /\ result' = ReadResult("list_documents", r.kind, r.detail, project_id, viewer,
                                r.documents)
        /\ UNCHANGED <<users, projects, leads, messages, documents, files, inflight>>

(***************************************************************************)
(* The read endpoints: the current user is resolved from the bearer         *)
(* credential before the service is called.                                 *)
(***************************************************************************)
\* A decoded token: decode_token returns None for a token that does not verify
Token(payload) == [payload |-> payload]

Payload(type, user_id) == Some([type |-> type, user_id |-> user_id])

AuthOutcome(kind, detail, user) == [kind |-> kind, detail |-> detail, user |-> user]

\* security = HTTPBearer(): auto_error is left on, so a request without an
\* Authorization header is refused with "Not authenticated" before the
\* dependency runs; the status is 403 or 401 with the FastAPI release
HTTPBearer(credentials) ==
    IF credentials = None
    THEN {AuthOutcome("FORBIDDEN", "Not authenticated", None),
          AuthOutcome("UNAUTHORIZED", "Not authenticated", None)}
    ELSE {AuthOutcome("", "", None)}

\* AuthMiddleware.get_current_user_from_token(token_payload)
get_current_user_from_token(us, token_payload) ==
    IF ~TruthyInt(token_payload.user_id)
    THEN None
    ELSE get_by_id(us, token_payload.user_id[1])

\* get_current_user(credentials, db), credentials being present
get_current_user(us, credentials) ==
    LET payload == credentials[1].payload
    IN  IF payload = None
        THEN AuthOutcome("UNAUTHORIZED", "Could not validate credentials", None)
        ELSE IF payload[1].type # "access"
        THEN AuthOutcome("UNAUTHORIZED", "Invalid token type", None)
        ELSE LET user == get_current_user_from_token(us, payload[1])
             IN  IF user = None
                 THEN AuthOutcome("UNAUTHORIZED", "Could not validate credentials", None)
                 ELSE AuthOutcome("", "", user)

\* Depends(get_current_user): the outcomes of resolving the current user
CurrentUser(us, credentials) ==
    {IF bearer.kind # "" THEN bearer ELSE get_current_user(us, credentials) :
        bearer \in HTTPBearer(credentials)}

EndpointResult(op, kind, detail, id, credentials, viewer, extra) ==
    Result(op, 0, kind, detail, id,
           [credentials |-> credentials, viewer |-> viewer, extra |-> extra])

\* GET /projects/{project_id}
GetProjectEndpoint(credentials, project_id) ==
    /\ \E auth \in CurrentUser(users, credentials) :
          LET r == get_project(projects, project_id, auth.user)
          IN  result' = IF auth.kind # ""
                        THEN EndpointResult("get_project", auth.kind, auth.detail, project_id,
                                            credentials, None, <<>>)
                        ELSE EndpointResult("get_project", r.kind, r.detail, project_id,
                                            credentials, auth.user, <<>>)
    /\ UNCHANGED <<users, projects, leads, messages, documents, files, inflight>>

\* GET /projects
SearchProjectsEndpoint(credentials, filters) ==
    /\ \E auth \in CurrentUser(users, credentials) :
          IF auth.kind # ""
          THEN result' = EndpointResult("search_projects", auth.kind, auth.detail, 0,
                                        credentials, None, <<>>)
          ELSE \E response \in search_projects(projects, filters, auth.user) :
                  result' = EndpointResult("search_projects", "OK", "", 0, credentials,
                                           auth.user, response)
    /\ UNCHANGED <<users, projects, leads, messages, documents, files, inflight>>

\* GET /documents/{document_id}
GetDocumentEndpoint(credentials, document_id) ==
    /\ \E auth \in CurrentUser(users, credentials) :
          LET r == get_document(projects, documents, document_id, auth.user)
          IN  result' = IF auth.kind # ""
                        THEN EndpointResult("get_document", auth.kind, auth.detail, document_id,
                                            credentials, None, <<>>)
                        ELSE EndpointResult("get_document", r.kind, r.detail, document_id,
                                            credentials, auth.user, <<>>)
    /\ UNCHANGED <<users, projects, leads, messages, documents, files, inflight>>

\* GET /projects/{project_id}/documents
ListDocumentsEndpoint(credentials, project_id) ==
    /\ \E auth \in CurrentUser(users, credentials) :
          LET r == list_documents(projects, documents, project_id, auth.user)
          IN  result' = IF auth.kind # ""
                        THEN EndpointResult("list_documents", auth.kind, auth.detail, project_id,
                                            credentials, None, <<>>)
                        ELSE EndpointResult("list_documents", r.kind, r.detail, project_id,
                                            credentials, auth.user, r.documents)
    /\ UNCHANGED <<users, projects, leads, messages, documents, files, inflight>>

(***************************************************************************)
(* DocumentService: upload_document and delete_document.  The callers are   *)
(* the users the developer role guard of the controller lets through.       *)
(***************************************************************************)
DocumentRepository_create(ds, document_data) ==
    Append(ds, document_data)

DocumentRepository_delete(ds, document_id) ==
    IF DocumentRepository_find_by_id(ds, document_id) = None
    THEN ds
    ELSE [ds EXCEPT ![document_id].deleted = TRUE]

\* StorageService.upload_file: raises, or stores the object under a fresh key
StorageService_upload_file(fs, key, raises) ==
    IF raises THEN Call("Exception", fs) ELSE Call("", fs \cup {key})

\* StorageService.delete_file(object_key): raises, or removes the object
StorageService_delete_file(fs, object_key, raises) ==
    IF raises THEN Call("Exception", fs) ELSE Call("", fs \ {object_key})

DocumentOutcome(kind, detail, id, ds, fs) ==
    [kind |-> kind, detail |-> detail, id |-> id, documents |-> ds, files |-> fs]

\* DocumentService.upload_document(project_id, file, metadata, developer)
upload_document(ps, ds, fs, u, project_id, access_level, type_ok, size_ok, upload_raises) ==
    LET project == ProjectRepository_find_by_id(ps, project_id)
    IN  IF project = None
        THEN DocumentOutcome("NOT_FOUND", "Project not found", 0, ds, fs)
        ELSE IF project[1].developer_id # u
        THEN DocumentOutcome("FORBIDDEN", "You can only upload documents to your own projects", 0, ds, fs)
        ELSE IF ~type_ok
        THEN DocumentOutcome("BAD_REQUEST", "File type not allowed", 0, ds, fs)
        ELSE IF ~size_ok
        THEN DocumentOutcome("REQUEST_ENTITY_TOO_LARGE", "File size exceeds maximum allowed", 0, ds, fs)
        ELSE LET upload_result == StorageService_upload_file(fs, Len(ds) + 1, upload_raises)
             IN  IF upload_result.raised # ""
                 THEN DocumentOutcome("INTERNAL_SERVER_ERROR", "Failed to upload document", 0, ds, fs)
                 ELSE DocumentOutcome("OK", "", Len(ds) + 1,
                          DocumentRepository_create(ds,
                              [project_id |-> project_id,
                               access_level |-> access_level,
                               file_key |-> Len(ds) + 1,
                               deleted |-> FALSE]),
                          upload_result.value)

\* delete_document with the storage call outside the try: a failure to delete
\* the file ends the request
delete_document_transactional(ps, ds, fs, u, document_id, storage_raises) ==
    LET document == DocumentRepository_find_by_id(ds, document_id)
    IN  IF document = None
        THEN DocumentOutcome("NOT_FOUND", "Document not found", document_id, ds, fs)
        ELSE LET project == ProjectRepository_find_by_id(ps, document[1].project_id)
             IN  IF project = None \/ project[1].developer_id # u
                 THEN DocumentOutcome("FORBIDDEN",
                          "You can only delete documents from your own projects",
                          document_id, ds, fs)
                 ELSE LET deleted ==
                              IF "r2_key" \in ProjectDocumentAttributes
                              THEN StorageService_delete_file(fs, document[1].file_key, storage_raises)
                              ELSE Call("AttributeError", fs)
                      IN  IF deleted.raised # ""
                          THEN DocumentOutcome("INTERNAL_SERVER_ERROR", deleted.raised,
                                               document_id, ds, fs)
                          ELSE DocumentOutcome("OK", "Document deleted successfully", document_id,
                                               DocumentRepository_delete(ds, document_id),
                                               deleted.value)

\* DocumentService.delete_document(document_id, developer).  document.r2_key is
\* read inside the try: ProjectDocument maps no such attribute, so the read
\* raises AttributeError, which the except clause swallows like a failure of
\* the storage call
delete_document(ps, ds, fs, u, document_id, storage_raises) ==
    LET document == DocumentRepository_find_by_id(ds, document_id)
    IN  IF document = None
        THEN DocumentOutcome("NOT_FOUND", "Document not found", document_id, ds, fs)
        ELSE LET project == ProjectRepository_find_by_id(ps, document[1].project_id)
             IN  IF project = None \/ project[1].developer_id # u
                 THEN DocumentOutcome("FORBIDDEN",
                          "You can only delete documents from your own projects",
                          document_id, ds, fs)
                 ELSE LET deleted ==
                              IF "r2_key" \in ProjectDocumentAttributes
                              THEN StorageService_delete_file(fs, document[1].file_key, storage_raises)
                              ELSE Call("AttributeError", fs)
                      IN  DocumentOutcome("OK", "Document deleted successfully", document_id,
                                          DocumentRepository_delete(ds, document_id),
                                          deleted.value)

UploadDocument(u, project_id, access_level, type_ok, size_ok, upload_raises, bound) ==
    LET r == upload_document(projects, documents, files, u, project_id, access_level,
                             type_ok, size_ok, upload_raises)
    IN  /\ r.kind = "OK" => Len(documents) < bound
        /\ result' = Result("upload_document", u, r.kind, r.detail, r.id,
                            [project_id |-> project_id])
        /\ documents' = r.documents
        /\ files' = r.files
        /\ UNCHANGED <<users, projects, leads, messages, inflight>>

DeleteDocument(u, document_id, storage_raises) ==
    LET r == delete_document(projects, documents, files, u, document_id, storage_raises)
    IN  /\ result' = Result("delete_document", u, r.kind, r.detail, r.id,
                            [storage_raises |-> storage_raises])
        /\ documents' = r.documents
        /\ files' = r.files
        /\ UNCHANGED <<users, projects, leads, messages, inflight>>

(***************************************************************************)
(* The service as deployed                                                  *)
(***************************************************************************)
ProjectIdInputs == 1 .. (MaxProjects + 1)

\* Requests: an address behind a proxy, a direct peer, nothing at all, and a
\* forwarded header whose first entry is blank
RequestInputs ==
    {Request(Some(<<" 10.0.0.1", "10.9.9.9">>), None, Some("10.9.9.9")),
     Request(None, None, Some("10.0.0.3")),
     Request(None, None, None),
     Request(Some(<<" ", "10.9.9.9">>), None, Some("10.9.9.9"))}

LeadCreateInputs ==
    [recipient_id : {1, 3, 9},
     project_id : {None, Some(1), Some(9)},
     listing_id : {None},
     message : {None, Some("hello")},
     request : {Request(None, None, Some("10.0.0.3")), Request(None, None, None)}]

LeadIdInputs == {1, 2}

Init ==
    /\ users = BaseUsers
    /\ projects = <<>>
    /\ leads = <<>>
    /\ messages = <<>>
    /\ documents = <<>>
    /\ files = {}
    /\ inflight = <<>>
    /\ result = NoResult

Next ==
    \/ \E u \in UserIds, al \in AccessLevels : CreateProject(u, al, MaxProjects)
    \/ \E u \in UserIds, p \in ProjectIdInputs : DeleteProject(u, p)
    \/ \E u \in {1, 3, 4}, data \in LeadCreateInputs : CreateLead(u, data)
    \/ \E u \in {1, 3}, l \in LeadIdInputs : GetLead(u, l)
    \/ \E u \in {1, 3}, l \in LeadIdInputs, rq \in RequestInputs : SendMessage(u, l, "hi", rq)
    \/ \E u \in {1, 3}, l \in LeadIdInputs : GetMessages(u, l)

Spec == Init /\ [][Next]_vars

(***************************************************************************)
(* The quota of one developer: the tier is drawn, then the developer        *)
(* creates and archives projects.                                           *)
(***************************************************************************)
QuotaTierInputs ==
    {None, Some(""), Some("Launch"), Some("Growth"), Some("elite"), Some("platinum")}

InitQuota ==
    /\ \E t \in QuotaTierInputs : users = <<User("developer", t, "active")>>
    /\ projects = <<>>
    /\ leads = <<>>
    /\ messages = <<>>
    /\ documents = <<>>
    /\ files = {}
    /\ inflight = <<>>
    /\ result = NoResult

NextQuota ==
    \/ CreateProject(1, "public", MaxQuotaProjects)
    \/ \E p \in 1 .. MaxQuotaProjects : DeleteProject(1, p)

SpecQuota == InitQuota /\ [][NextQuota]_vars

(***************************************************************************)
(* The fee lock as a function of the two tiers                              *)
(***************************************************************************)
ApplyLockTiers(initiator_tier, recipient_tier) ==
    /\ result' = Result("lock_tiers", 0, "OK", "", 0,
                        [initiator_tier |-> initiator_tier,
                         recipient_tier |-> recipient_tier,
                         locked |-> LockTiers(initiator_tier, recipient_tier)])
    /\ UNCHANGED <<users, projects, leads, messages, documents, files, inflight>>

NextFee == \E it \in OptTiers, rt \in OptTiers : ApplyLockTiers(it, rt)

SpecFee == Init /\ [][NextFee]_vars

(***************************************************************************)
(* The visibility resolver as a function of the viewer and the owner        *)
(***************************************************************************)
Roles == {"developer", "investor", "agency", "buyer", "admin"}

Viewers ==
    {None} \cup {Some([id |-> i, role |-> r, tier |-> t, subscription_status |-> "none"]) :
                    i \in {1, 2}, r \in Roles, t \in OptTiers}

\* The levels of the owner's projects and documents the viewer is let through to
ProjectLevelsFor(viewer, owner_id) ==
    {al \in AccessLevels :
        can_access_project([developer_id |-> owner_id, access_level |-> al], viewer)}

DocumentLevelsFor(viewer, owner_id) ==
    {al \in AccessLevels :
        can_access_document(<<[developer_id |-> owner_id]>>,
                            [project_id |-> 1, access_level |-> al], viewer)}

Resolve(viewer, owner_id) ==
    /\ result' = Result("resolve", 0, "OK", "", 0,
                        [viewer |-> viewer,
                         owner_id |-> owner_id,
                         search_levels |-> ProjectService_get_allowed_access_levels(viewer),
                         project_levels |-> ProjectLevelsFor(viewer, owner_id),
                         document_levels |-> DocumentLevelsFor(viewer, owner_id)])
    /\ UNCHANGED <<users, projects, leads, messages, documents, files, inflight>>

NextVisibility == \E v \in Viewers : Resolve(v, 1)

SpecVisibility == Init /\ [][NextVisibility]_vars

(***************************************************************************)
(* The duplicate check as a function of the leads table and the tuple       *)
(***************************************************************************)
LeadRow(initiator_id, recipient_id, project_id, listing_id) ==
    [initiator_id |-> initiator_id,
     recipient_id |-> recipient_id,
     project_id |-> project_id,
     listing_id |-> listing_id,
     status |-> "active",
     origin |-> "platform",
     first_contact_ip |-> "10.0.0.3",
     initiator_tier_locked |-> "explorer",
     recipient_tier_locked |-> "launch",
     success_fee_rate_locked |-> 5]

OptIdInputs == {None, Some(1), Some(2)}

LeadTables ==
    {<<>>} \cup {<<LeadRow(3, 1, p, l)>> : p \in OptIdInputs, l \in OptIdInputs}

InitDuplicate ==
    /\ users = BaseUsers
    /\ projects = <<>>
    /\ leads \in LeadTables
    /\ messages = <<>>
    /\ documents = <<>>
    /\ files = {}
    /\ inflight = <<>>
    /\ result = NoResult

FindExistingLead(initiator_id, recipient_id, project_id, listing_id) ==
    /\ result' = Result("find_existing_lead", initiator_id, "OK", "", 0,
                        [recipient_id |-> recipient_id,
                         project_id |-> project_id,
                         listing_id |-> listing_id,
                         found |-> find_existing_lead(leads, initiator_id, recipient_id,
                                                      project_id, listing_id)])
    /\ UNCHANGED <<users, projects, leads, messages, documents, files, inflight>>

NextDuplicate ==
    \E i \in {3, 4}, r \in {1, 2}, p \in OptIdInputs, l \in OptIdInputs :
        FindExistingLead(i, r, p, l)

SpecDuplicate == InitDuplicate /\ [][NextDuplicate]_vars

(***************************************************************************)
(* The life of a project: its owner creates, updates, publishes,            *)
(* unpublishes and archives it while the subscription comes and goes.       *)
(***************************************************************************)
MaxLifecycleProjects == 1

Times == {1, 2}

UpdateInputs == [access_level : {None, Some("pre_launch")}]

NextLifecycle ==
    \/ \E u \in {1, 3} : CreateProject(u, "public", MaxLifecycleProjects)
    \/ \E u \in {1, 2}, p \in 1 .. (MaxLifecycleProjects + 1),
          st \in {"published", "draft"}, now \in Times : PublishProject(u, p, st, now)
    \/ \E u \in {1, 2}, p \in 1 .. (MaxLifecycleProjects + 1), data \in UpdateInputs :
          UpdateProject(u, p, data)
    \/ \E u \in {1, 2}, p \in 1 .. (MaxLifecycleProjects + 1) : DeleteProject(u, p)
    \/ \E st \in {"active", "expired"} : SubscriptionChanges(1, st)

SpecLifecycle == Init /\ [][NextLifecycle]_vars

(***************************************************************************)
(* The gated writes of a launch developer up to the quota                   *)
(***************************************************************************)
MaxGateProjects == 3

NextGate ==
    \/ \E u \in {1, 3, 7} : CreateProject(u, "public", MaxGateProjects)
    \/ \E u \in {1, 7}, p \in 1 .. (MaxGateProjects + 1), st \in {"published", "draft"} :
          PublishProject(u, p, st, 1)
    \/ \E st \in {"active", "trial", "none", "expired"} : SubscriptionChanges(1, st)

SpecGate == Init /\ [][NextGate]_vars

(***************************************************************************)
(* create_lead from the duplicate check on, for requests that run side by   *)
(* side.  Each request has passed the checks before the duplicate check;    *)
(* its reads and commits are steps of their own: the SELECT of              *)
(* find_existing_lead, the commit of LeadRepository.create and the commit   *)
(* of LeadRepository.create_message.  No lock and no unique constraint on   *)
(* the leads table orders the steps of different requests.                  *)
(***************************************************************************)
MaxRequests == 2

InflightRequest(u, recipient_id, project_id, message) ==
    [u |-> u,
     recipient_id |-> recipient_id,
     project_id |-> project_id,
     listing_id |-> None,
     message |-> message,
     request |-> Request(None, None, Some("10.0.0.3")),
     pc |-> "check",
     lead_id |-> 0,
     kind |-> ""]

InflightInputs ==
    {InflightRequest(3, rcp, None, m) : rcp \in {1, 5}, m \in {None, Some("hello")}}

InitInflight ==
    /\ users = BaseUsers
    /\ projects = <<>>
    /\ leads = <<>>
    /\ messages = <<>>
    /\ documents = <<>>
    /\ files = {}
    /\ inflight \in [1 .. MaxRequests -> InflightInputs]
    /\ result = NoResult

Finish(r, kind, detail, lead_id) ==
    /\ inflight' = [inflight EXCEPT ![r].pc = "done", ![r].kind = kind, ![r].lead_id = lead_id]
    /\ result' = Result("create_lead", inflight[r].u, kind, detail, lead_id, [request |-> r])

\* lead_service.py 108-130: the duplicate check and the client IP
CheckExisting(r) ==
    LET q == inflight[r]
    IN  /\ q.pc = "check"
        /\ IF find_existing_lead(leads, q.u, q.recipient_id, q.project_id, q.listing_id) # {}
           THEN Finish(r, "CONFLICT", "Lead already exists between these users for this project/listing", 0)
           ELSE IF ~TruthyStr(get_client_ip(q.request))
           THEN Finish(r, "BAD_REQUEST", "Unable to determine client IP address", 0)
           ELSE /\ inflight' = [inflight EXCEPT ![r].pc = "insert"]
                /\ UNCHANGED result
        /\ UNCHANGED <<users, projects, leads, messages, documents, files>>

\* lead_service.py 132-156: the lead is built and committed; when the
\* constructor raises the request ends in an error, and without a message the
\* request is done
InsertLead(r) ==
    LET q == inflight[r]
        lead_data == [LeadRow(q.u, q.recipient_id, q.project_id, q.listing_id)
                         EXCEPT !.first_contact_ip = get_client_ip(q.request)[1]]
        created == LeadRepository_create(leads, lead_data)
    IN  /\ q.pc = "insert"
        /\ leads' = created.value
        /\ IF created.raised # ""
           THEN Finish(r, "INTERNAL_SERVER_ERROR", created.raised, 0)
           ELSE IF TruthyStr(q.message)
           THEN /\ inflight' = [inflight EXCEPT ![r].pc = "message", ![r].lead_id = Len(leads) + 1]
                /\ UNCHANGED result
           ELSE Finish(r, "OK", "", Len(leads) + 1)
        /\ UNCHANGED <<users, projects, messages, documents, files>>

\* lead_service.py 158-167: the message is committed on its own, after the
\* lead.  No request gets here: the insert of the lead raises.
InsertMessage(r) ==
    LET q == inflight[r]
        sent == create_message_internal(messages, q.lead_id, q.u, q.message[1],
                                        get_client_ip(q.request))
    IN  /\ q.pc = "message"
        /\ messages' = sent.value
        /\ IF sent.raised # ""
           THEN Finish(r, "INTERNAL_SERVER_ERROR", sent.raised, q.lead_id)
           ELSE Finish(r, "OK", "", q.lead_id)
        /\ UNCHANGED <<users, projects, leads, documents, files>>

NextInflight ==
    \E r \in 1 .. MaxRequests :
        \/ CheckExisting(r)
        \/ InsertLead(r)

SpecInflight == InitInflight /\ [][NextInflight]_vars

(***************************************************************************)
(* The reads as functions of the store and the viewer: the projects and     *)
(* documents are drawn, then viewers read them.                             *)
(***************************************************************************)
StoredProject(developer_id, st, access_level, score, roi) ==
    [developer_id |-> developer_id,
     status |-> st,
     access_level |-> access_level,
     visibility_score |-> score,
     roi_estimate |-> roi,
     published_at |-> IF st = "published" THEN Some(1) ELSE None]

StoredDocument(project_id, access_level, deleted) ==
    [project_id |-> project_id,
     access_level |-> access_level,
     file_key |-> project_id,
     deleted |-> deleted]

\* Two projects of developer 1, of equal visibility score
ProjectTables ==
    {<<StoredProject(1, st, a1, 0, None), StoredProject(1, "published", a2, 0, Some(12))>> :
        st \in {"published", "draft"}, a1 \in AccessLevels, a2 \in AccessLevels}

\* One document of each level in project 1, one deleted, one in project 2
DocumentTable ==
    <<StoredDocument(1, "public", FALSE),
      StoredDocument(1, "verified_only", FALSE),
      StoredDocument(1, "investor_only", FALSE),
      StoredDocument(1, "public", TRUE),
      StoredDocument(2, "investor_only", FALSE)>>

Viewer(id, role, tier) ==
    Some([id |-> id, role |-> role, tier |-> tier, subscription_status |-> "none"])

ReadViewers ==
    {None, Viewer(1, "developer", None), Viewer(2, "developer", None),
     Viewer(2, "admin", None), Viewer(2, "buyer", None), Viewer(2, "agency", None),
     Viewer(2, "investor", None), Viewer(2, "investor", Some("Explorer")),
     Viewer(2, "investor", Some("Insider")),
     Viewer(2, "investor", Some("capital partner")),
     Viewer(2, "investor", Some("capital_partner")),
     Viewer(2, "investor", Some("platinum"))}

SearchFilters ==
    [status : {"published", ""},
     min_roi : {None, Some(10)},
     sort_by : {"visibility_score", "created_at"},
     sort_order : {"asc", "desc"},
     page : 1 .. MaxPage,
     page_size : 1 .. MaxPageSize]

InitRead ==
    /\ users = BaseUsers
    /\ projects \in ProjectTables
    /\ leads = <<>>
    /\ messages = <<>>
    /\ documents = DocumentTable
    /\ files = {1, 2}
    /\ inflight = <<>>
    /\ result = NoResult

\* A read leaves the store as it is, so every response is that of a first read
NextRead ==
    \/ \E v \in ReadViewers, p \in 1 .. 3 : result = NoResult /\ GetProject(v, p)
    \/ \E v \in ReadViewers, f \in SearchFilters : result = NoResult /\ SearchProjects(v, f)
    \/ \E v \in ReadViewers, d \in 1 .. 6 : result = NoResult /\ GetDocument(v, d)
    \/ \E v \in ReadViewers, p \in 1 .. 3 : result = NoResult /\ ListDocuments(v, p)

SpecRead == InitRead /\ [][NextRead]_vars

(***************************************************************************)
(* Properties                                                               *)
(***************************************************************************)
NonArchived(ps) == Cardinality({i \in DOMAIN ps : ps[i].status # "archived"})

\* The quota table as the claim states it: Some("") and None are a missing tier
ClaimedQuota(tier) ==
    IF tier = None \/ tier = Some("") THEN Some(3)
    ELSE IF Lower(tier[1]) = "launch" THEN Some(3)
    ELSE IF Lower(tier[1]) = "growth" THEN Some(10)
    ELSE IF Lower(tier[1]) = "elite" THEN None
    ELSE Some(3)

QuotaError(r) == r.kind = "FORBIDDEN" /\ r.detail = "Project quota exceeded"

\* C8 (quota monotonicity): a create_project of a developer with an active
\* subscription succeeds, adding one non-archived project, exactly while the
\* developer has fewer non-archived projects than the quota of the tier
\* (launch 3, growth 10, missing or unrecognized 3); at the quota it fails with
\* the quota error and creates nothing, so archiving one project permits
\* exactly one more creation; tier elite is never refused.
C8_QuotaMonotonicity ==
    [][result'.op = "create_project" =>
         LET q == ClaimedQuota(users[1].tier)
             n == NonArchived(projects)
         IN  IF q # None /\ n >= q[1]
             THEN QuotaError(result') /\ projects' = projects
             ELSE /\ result'.kind = "OK"
                  /\ Len(projects') = Len(projects) + 1
                  /\ NonArchived(projects') = n + 1]_vars

\* C8 witness: a growth developer who archived one of ten projects, created
\* one more and is refused the next
C8_Witness ==
    /\ users[1].tier = Some("Growth")
    /\ result.op = "create_project"
    /\ QuotaError(result)
    /\ Len(projects) = 11
    /\ NonArchived(projects) = 10

\* The tuple of a lead row and of a query, field by field, None included
SameTuple(row, initiator_id, recipient_id, project_id, listing_id) ==
    /\ row.initiator_id = initiator_id
    /\ row.recipient_id = recipient_id
    /\ row.project_id = project_id
    /\ row.listing_id = listing_id

ClaimedFeeRate(tier) ==
    IF tier = "launch" THEN 5
    ELSE IF tier = "growth" THEN 4
    ELSE IF tier = "elite" THEN 3
    ELSE IF tier \in {"explorer", "insider", "capital_partner"} THEN 0
    ELSE 5

ClaimedTier(tier, default) == IF TruthyStr(tier) THEN tier[1] ELSE default

\* C4 (locked values): the locked initiator tier is the initiator's tier or
\* explorer, the locked recipient tier is the recipient's tier or launch, and
\* the locked fee rate is the table value of the lower-cased recipient tier:
\* launch 5, growth 4, elite 3, explorer, insider and capital_partner 0,
\* anything else 5
C4_LockedValues ==
    result.op = "lock_tiers" =>
        /\ result.args.locked.initiator_tier_locked
               = ClaimedTier(result.args.initiator_tier, "explorer")
        /\ result.args.locked.recipient_tier_locked
               = ClaimedTier(result.args.recipient_tier, "launch")
        /\ result.args.locked.success_fee_rate_locked
               = ClaimedFeeRate(Lower(ClaimedTier(result.args.recipient_tier, "launch")))

\* The first failing precondition of create_lead in the claimed order, or OK
ClaimedCreateLeadKind(us, ps, ls, u, data) ==
    IF us[u].role \notin {"investor", "buyer"} THEN "FORBIDDEN"
    ELSE IF data.recipient_id \notin DOMAIN us THEN "NOT_FOUND"
    ELSE IF us[data.recipient_id].role \notin {"developer", "agency"} THEN "BAD_REQUEST"
    ELSE IF data.project_id # None /\ data.project_id[1] \notin DOMAIN ps THEN "NOT_FOUND"
    ELSE IF data.project_id # None
            /\ ps[data.project_id[1]].developer_id # data.recipient_id THEN "BAD_REQUEST"
    ELSE IF \E i \in DOMAIN ls :
                SameTuple(ls[i], u, data.recipient_id, data.project_id, data.listing_id)
         THEN "CONFLICT"
    ELSE IF ~TruthyStr(get_client_ip(data.request)) THEN "BAD_REQUEST"
    ELSE "OK"

\* C5 (precondition order): a create_lead that fails reports the first failing
\* precondition in the order role FORBIDDEN, recipient NOT_FOUND, recipient
\* role BAD_REQUEST, project NOT_FOUND then BAD_REQUEST, duplicate CONFLICT,
\* client IP BAD_REQUEST, and leaves the leads and messages as they were
C5_PreconditionOrder ==
    [][result'.op = "create_lead" =>
         LET expected == ClaimedCreateLeadKind(users, projects, leads,
                                               result'.user, result'.args)
         IN  /\ result'.kind = expected
             /\ expected # "OK" => leads' = leads /\ messages' = messages]_vars

\* C6 (first-contact IP): every lead has a non-empty first_contact_ip, and a
\* create_lead that meets every other precondition but whose request yields no
\* client IP fails with BAD_REQUEST and creates no lead
C6_FirstContactIp ==
    /\ \A i \in DOMAIN leads : leads[i].first_contact_ip # ""
    /\ (/\ result.op = "create_lead"
        /\ users[result.user].role \in {"investor", "buyer"}
        /\ result.args.recipient_id \in DOMAIN users
        /\ users[result.args.recipient_id].role \in {"developer", "agency"}
        /\ result.args.project_id = None
        /\ ~TruthyStr(get_client_ip(result.args.request)))
       => result.kind = "BAD_REQUEST" /\ leads = <<>>

\* The resolver table as the claim states it
ClaimedInvestorTier(tier) == IF TruthyStr(tier) THEN Lower(tier[1]) ELSE "explorer"

ClaimedProjectLevels(viewer, owner_id) ==
    IF viewer = None THEN {"public"}
    ELSE IF viewer[1].id = owner_id \/ viewer[1].role = "admin" THEN AccessLevels
    ELSE IF viewer[1].role = "investor"
         THEN IF ClaimedInvestorTier(viewer[1].tier) = "capital_partner" THEN AccessLevels
              ELSE IF ClaimedInvestorTier(viewer[1].tier) = "insider"
                   THEN {"public", "verified_only"}
              ELSE {"public"}
    ELSE {"public"}

ClaimedDocumentLevels(viewer, owner_id) ==
    IF viewer = None THEN {"public"}
    ELSE IF viewer[1].id = owner_id \/ viewer[1].role = "admin" THEN DocumentAccessLevels
    ELSE IF viewer[1].role = "investor"
         THEN IF ClaimedInvestorTier(viewer[1].tier) = "capital_partner"
              THEN {"public", "verified_only", "investor_only"}
              ELSE IF ClaimedInvestorTier(viewer[1].tier) = "insider"
                   THEN {"public", "verified_only"}
              ELSE {"public"}
    ELSE {"public"}

DeveloperStranger(viewer, owner_id) ==
    viewer # None /\ viewer[1].role = "developer" /\ viewer[1].id # owner_id

\* C9 (visibility resolver): the access levels a viewer may read are those of
\* the table: every level for the owner and for an admin, the tier row for an
\* investor (explorer: public; insider: public, verified_only; capital_partner:
\* all four project levels and three document levels; no or unknown tier as
\* explorer; compared case-insensitively), and public for an anonymous viewer,
\* a buyer and an agency
C9_ResolverTable ==
    (result.op = "resolve" /\ ~DeveloperStranger(result.args.viewer, result.args.owner_id)) =>
        /\ result.args.project_levels
               = ClaimedProjectLevels(result.args.viewer, result.args.owner_id)
        /\ result.args.document_levels
               = ClaimedDocumentLevels(result.args.viewer, result.args.owner_id)

InvestorOfTier(viewer, tier) ==
    /\ viewer # None
    /\ viewer[1].role = "investor"
    /\ ClaimedInvestorTier(viewer[1].tier) = tier

\* C10 (visibility monotonicity): what a capital_partner investor may read
\* includes what an insider investor may read, which includes what an explorer
\* investor and an anonymous viewer may read, for projects and for documents
C10_VisibilityMonotone ==
    result.op = "resolve" =>
        \A w \in Viewers :
            ((\/ InvestorOfTier(result.args.viewer, "capital_partner")
                    /\ InvestorOfTier(w, "insider")
              \/ InvestorOfTier(result.args.viewer, "insider")
                    /\ (InvestorOfTier(w, "explorer") \/ w = None))
             /\ (w = None \/ w[1].id = result.args.viewer[1].id))
            => /\ ProjectLevelsFor(w, result.args.owner_id) \subseteq result.args.project_levels
               /\ DocumentLevelsFor(w, result.args.owner_id) \subseteq result.args.document_levels

\* The project levels of the table, a developer being allowed every level
ClaimedProjectLevelsOf(viewer, owner_id) ==
    IF viewer # None /\ viewer[1].role = "developer"
    THEN AccessLevels
    ELSE ClaimedProjectLevels(viewer, owner_id)

ClaimedSearchRows(viewer, filters) ==
    {i \in DOMAIN projects :
        /\ projects[i].access_level \in ClaimedProjectLevelsOf(viewer, projects[i].developer_id)
        /\ filters.status # "" => projects[i].status = filters.status
        /\ filters.min_roi # None =>
               (projects[i].roi_estimate # None
                /\ projects[i].roi_estimate[1] >= filters.min_roi[1])}

\* C11 (filtered search): search_projects and list_documents return only
\* resources whose access_level is among the viewer's allowed levels, whatever
\* the filters, the sort order and the page; the total counts the rows left by
\* the access-level filter; an investor with no tier searching with
\* status=published receives only public projects
C11_SearchWithinAllowedLevels ==
    /\ result.op = "search_projects" =>
          LET viewer == result.args.viewer
              filters == result.args.extra.filters
              response == result.args.extra.response
          IN  /\ \A k \in DOMAIN response.projects :
                     response.projects[k].id \in ClaimedSearchRows(viewer, filters)
              /\ response.total = Cardinality(ClaimedSearchRows(viewer, filters))
              /\ (viewer = Viewer(2, "investor", None) /\ filters.status = "published")
                     => \A k \in DOMAIN response.projects :
                            response.projects[k].access_level = "public"
    /\ (result.op = "list_documents" /\ result.kind = "OK") =>
          \A d \in result.args.extra :
              documents[d].access_level
                  \in ClaimedDocumentLevels(result.args.viewer,
                                            projects[documents[d].project_id].developer_id)

ClaimedGetProjectKind(viewer, project_id) ==
    IF project_id \notin DOMAIN projects THEN "NOT_FOUND"
    ELSE IF projects[project_id].access_level
                \notin ClaimedProjectLevelsOf(viewer, projects[project_id].developer_id)
    THEN "FORBIDDEN"
    ELSE "OK"

ClaimedGetDocumentKind(viewer, document_id) ==
    IF document_id \notin DOMAIN documents \/ documents[document_id].deleted THEN "NOT_FOUND"
    ELSE IF documents[document_id].access_level
                \notin ClaimedDocumentLevels(viewer,
                           projects[documents[document_id].project_id].developer_id)
    THEN "FORBIDDEN"
    ELSE "OK"

\* C12 (single reads): get_project and get_document answer NOT_FOUND when the
\* resource does not exist, FORBIDDEN when its access_level is not among the
\* viewer's allowed levels, and the resource otherwise; the owner of a
\* document is the developer of the document's project
C12_GetOutcomes ==
    /\ result.op = "get_project" =>
          result.kind = ClaimedGetProjectKind(result.args.viewer, result.id)
    /\ result.op = "get_document" =>
          result.kind = ClaimedGetDocumentKind(result.args.viewer, result.id)

StatusSteps ==
    {<<"draft", "published">>, <<"published", "draft">>,
     <<"draft", "archived">>, <<"published", "archived">>}

\* C13 (status transitions): a project's status changes only along draft ->
\* published, published -> draft, draft -> archived and published -> archived,
\* so an archived project stays archived whatever is called on it
C13_StatusTransitions ==
    [][\A p \in DOMAIN projects :
           \/ projects'[p].status = projects[p].status
           \/ <<projects[p].status, projects'[p].status>> \in StatusSteps]_vars

\* C14 (published_at set once): a project is created without published_at; a
\* step sets it exactly when it makes a project without one published; once
\* set it keeps its value through publish, unpublish, re-publish, update and
\* archive
C14_PublishedAtSetOnce ==
    [][/\ \A p \in DOMAIN projects' \ DOMAIN projects : projects'[p].published_at = None
       /\ \A p \in DOMAIN projects :
             IF projects[p].published_at # None
             THEN projects'[p].published_at = projects[p].published_at
             ELSE projects'[p].published_at # None
                      <=> (projects'[p].status = "published"
                           /\ projects[p].status # "published")]_vars

\* C14 witness: a project published at time 1 has been published again at
\* time 2 and still carries time 1
C14_Witness ==
    /\ result.op = "publish_project"
    /\ result.kind = "OK"
    /\ result.args = [new_status |-> "published", now |-> 2]
    /\ projects[result.id].status = "published"
    /\ projects[result.id].published_at = Some(1)

Subscribed(user) == user.subscription_status \in {"active", "trial"}

\* C19 (subscription gate): create_project by a developer without an active
\* or trial subscription fails with PAYMENT_REQUIRED, after the role check and
\* before the quota check; publish_project by the owner without one fails with
\* PAYMENT_REQUIRED, after the existence and ownership checks; both leave the
\* store unchanged, and a subscribed caller is never asked to pay
C19_SubscriptionGate ==
    [][/\ result'.op = "create_project" =>
             IF users[result'.user].role # "developer"
             THEN result'.kind = "FORBIDDEN"
                  /\ result'.detail = "Only developers can create projects"
             ELSE IF ~Subscribed(users[result'.user])
             THEN result'.kind = "PAYMENT_REQUIRED" /\ projects' = projects
             ELSE result'.kind # "PAYMENT_REQUIRED"
       /\ result'.op = "publish_project" =>
             IF result'.id \notin DOMAIN projects
             THEN result'.kind = "NOT_FOUND"
             ELSE IF projects[result'.id].developer_id # result'.user
             THEN result'.kind = "FORBIDDEN"
             ELSE IF ~Subscribed(users[result'.user])
             THEN result'.kind = "PAYMENT_REQUIRED" /\ projects' = projects
             ELSE result'.kind = "OK"]_vars

\* C19 witness: a developer at the quota whose subscription has lapsed is
\* asked to pay, not told of the quota
C19_Witness ==
    /\ result.op = "create_project"
    /\ result.kind = "PAYMENT_REQUIRED"
    /\ users[result.user].role = "developer"
    /\ users[result.user].subscription_status = "expired"
    /\ NonArchived(projects) = 3
    /\ \A p \in DOMAIN projects : projects[p].developer_id = result.user

\* C15 (atomic lead and first message): a finished create_lead that ended in
\* an error has left no lead; one that succeeded has left its lead, with a
\* first message from the initiator exactly when a message was given; a
\* create_lead without a message that meets the preconditions succeeds unless
\* its lead exists already
C15_AtomicLeadAndMessage ==
    \A r \in DOMAIN inflight :
        inflight[r].pc = "done" =>
            /\ IF inflight[r].kind = "OK"
               THEN /\ inflight[r].lead_id \in DOMAIN leads
                    /\ TruthyStr(inflight[r].message)
                           <=> \E m \in DOMAIN messages :
                                   /\ messages[m].lead_id = inflight[r].lead_id
                                   /\ messages[m].sender_id = inflight[r].u
               ELSE inflight[r].lead_id = 0
            /\ ~TruthyStr(inflight[r].message) => inflight[r].kind \in {"OK", "CONFLICT"}

\* C16 (uniqueness under concurrency): whatever the interleaving of identical
\* create_lead requests, no two leads carry the same (initiator_id,
\* recipient_id, project_id, listing_id), and of the finished identical
\* requests at most one succeeded, the others ending in CONFLICT
C16_ConcurrentUniqueness ==
    /\ \A i, j \in DOMAIN leads :
          i # j => ~SameTuple(leads[i], leads[j].initiator_id, leads[j].recipient_id,
                              leads[j].project_id, leads[j].listing_id)
    /\ \A r, q \in DOMAIN inflight :
          (/\ r # q
           /\ inflight[r].recipient_id = inflight[q].recipient_id
           /\ inflight[r].pc = "done"
           /\ inflight[q].pc = "done")
              => (inflight[r].kind = "CONFLICT" \/ inflight[q].kind = "CONFLICT")

\* C17 (lead refers to a project of its recipient): every lead with a
\* project_id names an existing project of its recipient; a create_lead by an
\* investor or buyer to a developer or agency that names a project that does
\* not exist fails with NOT_FOUND, one that names a project of another user
\* fails with BAD_REQUEST 'Project does not belong to recipient'
C17_LeadProjectOwnership ==
    /\ \A i \in DOMAIN leads :
          leads[i].project_id # None =>
              /\ leads[i].project_id[1] \in DOMAIN projects
              /\ projects[leads[i].project_id[1]].developer_id = leads[i].recipient_id
    /\ (/\ result.op = "create_lead"
        /\ users[result.user].role \in {"investor", "buyer"}
        /\ result.args.recipient_id \in DOMAIN users
        /\ users[result.args.recipient_id].role \in {"developer", "agency"}
        /\ result.args.project_id # None)
       => IF result.args.project_id[1] \notin DOMAIN projects
          THEN result.kind = "NOT_FOUND"
          ELSE projects[result.args.project_id[1]].developer_id # result.args.recipient_id
                   => (result.kind = "BAD_REQUEST"
                       /\ result.detail = "Project does not belong to recipient")

MaxDocumentProjects == 2

MaxDocuments == 2

NextDocuments ==
    \/ \E u \in {1, 2} : CreateProject(u, "public", MaxDocumentProjects)
    \/ \E u \in {1, 2}, p \in 1 .. (MaxDocumentProjects + 1),
          type_ok \in BOOLEAN, size_ok \in BOOLEAN, upload_raises \in BOOLEAN :
          UploadDocument(u, p, "investor_only", type_ok, size_ok, upload_raises, MaxDocuments)
    \/ \E u \in {1, 2}, d \in 1 .. (MaxDocuments + 1), storage_raises \in BOOLEAN :
          DeleteDocument(u, d, storage_raises)

SpecDocuments == Init /\ [][NextDocuments]_vars

\* C20 (delete_document): a delete_document by the owner of the document's
\* project removes the record of the document and reports success, whether the
\* deletion of the remote file succeeds or fails; a caller who does not own
\* the project gets FORBIDDEN and an unknown document id gets NOT_FOUND, and
\* in both cases neither a record nor a file is removed
C20_DeleteDocument ==
    [][result'.op = "delete_document" =>
          LET d == result'.id
              u == result'.user
          IN  IF d \notin DOMAIN documents \/ documents[d].deleted
              THEN /\ result'.kind = "NOT_FOUND"
                   /\ documents' = documents
                   /\ files' = files
              ELSE IF projects[documents[d].project_id].developer_id = u
              THEN /\ result'.kind = "OK"
                   /\ documents'[d].deleted
                   /\ \A e \in DOMAIN documents : e # d => documents'[e] = documents[e]
              ELSE /\ result'.kind = "FORBIDDEN"
                   /\ documents' = documents
                   /\ files' = files]_vars

C20_Witness ==
    /\ result.op = "delete_document"
    /\ result.kind = "OK"
    /\ result.args.storage_raises
    /\ projects[documents[result.id].project_id].developer_id = result.user
    /\ documents[result.id].deleted
    /\ \E e \in DOMAIN documents : ~documents[e].deleted

(***************************************************************************)
(* The read endpoints over the drawn tables, called with and without a      *)
(* credential.                                                              *)
(***************************************************************************)
\* No Authorization header, a token that does not verify, a refresh token, a
\* token of a user that is gone, and access tokens of users 1, 3 and 6
CredentialInputs ==
    {None,
     Some(Token(None)),
     Some(Token(Payload("refresh", Some(1)))),
     Some(Token(Payload("access", Some(9)))),
     Some(Token(Payload("access", None))),
     Some(Token(Payload("access", Some(1)))),
     Some(Token(Payload("access", Some(3)))),
     Some(Token(Payload("access", Some(6))))}

EndpointFilters ==
    [status : {"published", ""},
     min_roi : {None},
     sort_by : {"created_at"},
     sort_order : {"asc"},
     page : {1},
     page_size : {MaxPageSize}]

NextEndpoint ==
    \/ \E c \in CredentialInputs, p \in 1 .. 3 : GetProjectEndpoint(c, p)
    \/ \E c \in CredentialInputs, f \in EndpointFilters : SearchProjectsEndpoint(c, f)
    \/ \E c \in CredentialInputs, d \in 1 .. 6 : GetDocumentEndpoint(c, d)
    \/ \E c \in CredentialInputs, p \in 1 .. 3 : ListDocumentsEndpoint(c, p)

SpecEndpoint == InitRead /\ [][NextEndpoint]_vars

\* C21 (anonymous reads): get project, search projects, list documents and get
\* document accept a request that carries no credential and serve it as the
\* anonymous viewer, who sees public resources only, rather than rejecting it
\* as unauthenticated
C21_AnonymousReads ==
    (/\ result.op \in {"get_project", "search_projects", "get_document", "list_documents"}
     /\ result.args.credentials = None)
    => /\ result.kind \notin {"UNAUTHORIZED"}
       /\ result.detail # "Not authenticated"
       /\ result.op = "get_project" => result.kind = ClaimedGetProjectKind(None, result.id)
       /\ result.op = "get_document" => result.kind = ClaimedGetDocumentKind(None, result.id)
       /\ result.op = "search_projects" => result.kind = "OK"

(***************************************************************************)
(* The visibility score: an admin boosts the projects a developer creates,  *)
(* updates, publishes and archives.                                         *)
(***************************************************************************)
MaxScoreProjects == 1

\* Amounts the endpoint refuses (-300, 0, 1001) and accepts (300, 1000)
AmountInputs == {0 - 300, 0, 300, 1000, 1001}

NextScore ==
    \/ CreateProject(1, "public", MaxScoreProjects)
    \/ \E u \in {1, 6}, p \in 1 .. (MaxScoreProjects + 1), amount \in AmountInputs :
          IncrementVisibility(u, p, amount)
    \/ \E p \in 1 .. MaxScoreProjects, st \in {"published", "draft"} :
          PublishProject(1, p, st, 1)
    \/ \E p \in 1 .. MaxScoreProjects, data \in UpdateInputs : UpdateProject(1, p, data)
    \/ \E p \in 1 .. MaxScoreProjects : DeleteProject(1, p)

SpecScore == Init /\ [][NextScore]_vars

\* C22 (visibility score): a project's visibility_score is 0 on creation and
\* never decreases, whatever is called: increment_visibility with an amount
\* the endpoint accepts, update, publish or archive
C22_VisibilityScoreMonotone ==
    [][/\ \A p \in DOMAIN projects :
              projects'[p].visibility_score >= projects[p].visibility_score
       /\ \A p \in DOMAIN projects' :
              p \notin DOMAIN projects => projects'[p].visibility_score = 0]_vars

C22_Witness ==
    /\ result.op = "increment_visibility"
    /\ result.kind = "OK"
    /\ result.args.amount = 300
    /\ projects[result.id].visibility_score = 600
    /\ projects[result.id].status = "archived"

(***************************************************************************)
(* A conversation: over a leads table that holds a lead between investor 3  *)
(* and developer 1, or none, the participants and a stranger send and read  *)
(* messages and read the lead.                                              *)
(***************************************************************************)
InitConversation ==
    /\ users = BaseUsers
    /\ projects = <<>>
    /\ leads \in LeadTables
    /\ messages = <<>>
    /\ documents = <<>>
    /\ files = {}
    /\ inflight = <<>>
    /\ result = NoResult

NextConversation ==
    \/ \E u \in {1, 3, 4}, l \in 1 .. 2, rq \in RequestInputs : SendMessage(u, l, "hi", rq)
    \/ \E u \in {1, 3, 4}, l \in 1 .. 2 : GetMessages(u, l)
    \/ \E u \in {1, 3, 4}, l \in 1 .. 2 : GetLead(u, l)

SpecConversation == InitConversation /\ [][NextConversation]_vars

\* The caller of the last request is a participant of the lead it names
ByParticipant ==
    /\ result.id \in DOMAIN leads
    /\ result.user \in {leads[result.id].initiator_id, leads[result.id].recipient_id}

MaxOwnedProjects == 4

NextOwned ==
    \/ CreateProject(1, "public", MaxOwnedProjects)
    \/ \E p \in 1 .. MaxOwnedProjects, st \in {"published", "draft"} : PublishProject(1, p, st, 1)
    \/ \E p \in 1 .. MaxOwnedProjects : UpdateProject(1, p, [access_level |-> Some("pre_launch")])
    \/ \E p \in 1 .. MaxOwnedProjects : DeleteProject(1, p)

SpecOwned == Init /\ [][NextOwned]_vars

\* C25 (quota invariant): with requests executed one at a time, a developer
\* whose tier has a finite quota (launch 3, growth 10, missing or unrecognized
\* 3) never owns more projects with status other than archived than the quota
C25_QuotaInvariant ==
    \A u \in DOMAIN users :
        (users[u].role = "developer" /\ ClaimedQuota(users[u].tier) # None) =>
            Cardinality({p \in DOMAIN projects :
                            /\ projects[p].developer_id = u
                            /\ projects[p].status # "archived"})
                <= ClaimedQuota(users[u].tier)[1]

(***************************************************************************)
(* create_project for requests of one developer that run side by side: the  *)
(* checks, with the count read of _check_project_quota, are one step and    *)
(* the commit of ProjectRepository.create another.  The developer starts    *)
(* with at most the quota of projects.                                      *)
(***************************************************************************)
MaxCreators == 3

DraftProject(u) ==
    [developer_id |-> u,
     status |-> "draft",
     access_level |-> "public",
     visibility_score |-> 0,
     roi_estimate |-> None,
     published_at |-> None]

InitCreators ==
    /\ users = BaseUsers
    /\ projects \in {[i \in 1 .. k |-> DraftProject(1)] : k \in 0 .. 3}
    /\ leads = <<>>
    /\ messages = <<>>
    /\ documents = <<>>
    /\ files = {}
    /\ inflight = [r \in 1 .. MaxCreators |-> [u |-> 1, pc |-> "check", kind |-> ""]]
    /\ result = NoResult

\* project_service.py 40-55: role, subscription and quota, the count being read
\* here
CheckQuota(r) ==
    LET q == inflight[r]
        checked == create_project_result(projects, q.u, users[q.u], "public")
    IN  /\ q.pc = "check"
        /\ IF checked.kind = "OK"
           THEN /\ inflight' = [inflight EXCEPT ![r].pc = "insert"]
                /\ UNCHANGED result
           ELSE /\ inflight' = [inflight EXCEPT ![r].pc = "done", ![r].kind = checked.kind]
                /\ result' = [checked EXCEPT !.args = [request |-> r]]
        /\ UNCHANGED <<users, projects, leads, messages, documents, files>>

\* project_service.py 57-76: the project is committed
InsertProject(r) ==
    LET q == inflight[r]
    IN  /\ q.pc = "insert"
        /\ projects' = ProjectRepository_create(projects, DraftProject(q.u))
        /\ inflight' = [inflight EXCEPT ![r].pc = "done", ![r].kind = "OK"]
        /\ result' = Result("create_project", q.u, "OK", "", Len(projects) + 1, [request |-> r])
        /\ UNCHANGED <<users, leads, messages, documents, files>>

NextCreators ==
    \E r \in 1 .. MaxCreators :
        \/ CheckQuota(r)
        \/ InsertProject(r)

SpecCreators == InitCreators /\ [][NextCreators]_vars

\* C26 (quota race), as stated: interleaving create_project requests of one
\* developer can push the number of non-archived projects over the quota, by
\* no more than one
C26_ExceedsByAtMostOne ==
    NonArchived(projects) <= ClaimedQuota(users[1].tier)[1] + 1

\* C26 (quota race), amended: interleaving create_project requests of one
\* developer can push the number of non-archived projects over the quota, by
\* no more than the number of interleaving requests less one, and a request
\* is refused only once the quota is reached
C26_ExceedsByRequests ==
    /\ NonArchived(projects) <= ClaimedQuota(users[1].tier)[1] + Len(inflight) - 1
    /\ \A r \in DOMAIN inflight :
          (inflight[r].pc = "done" /\ inflight[r].kind # "OK")
              => NonArchived(projects) >= ClaimedQuota(users[1].tier)[1]

C26_Witness ==
    /\ NonArchived(projects) = ClaimedQuota(users[1].tier)[1] + 2
    /\ \A r \in DOMAIN inflight : inflight[r].pc = "done" /\ inflight[r].kind = "OK"

\* C27 (only the owner mutates a project): update_project, delete_project and
\* publish_project called by a user other than the project's developer fail
\* with FORBIDDEN and leave every field of the project as it was, and no
\* operation changes the developer_id of a project
C27_OnlyOwnerMutates ==
    [][/\ \A p \in DOMAIN projects : projects'[p].developer_id = projects[p].developer_id
       /\ (/\ result'.op \in {"update_project", "delete_project", "publish_project"}
           /\ result'.id \in DOMAIN projects
           /\ projects[result'.id].developer_id # result'.user)
          => (result'.kind = "FORBIDDEN" /\ projects' = projects)]_vars

C27_Witness ==
    /\ result.op = "delete_project"
    /\ result.kind = "FORBIDDEN"
    /\ result.id \in DOMAIN projects
    /\ result.user = 2
    /\ projects[result.id].developer_id = 1
    /\ projects[result.id].status = "published"

(***************************************************************************)
(* Registration: POST /auth/register with a RegisterDTO, over a users       *)
(* table that holds one registered developer.                               *)
(***************************************************************************)
MaxUsers == 3

RegisteredUser(email, username, role, tier) ==
    [role |-> role, tier |-> tier, subscription_status |-> "none",
     email |-> email, username |-> username]

\* RegisterDTO.validate_role
validate_role(v) == v \in {"developer", "investor", "agency", "buyer", "admin"}

\* The request body is validated into a RegisterDTO, then
\* AuthService.register_user(register_data, ip_address)
register_user(us, register_data) ==
    IF ~validate_role(register_data.role) \/ ~register_data.accepted_non_circumvention
    THEN [kind |-> "UNPROCESSABLE_ENTITY", detail |-> "validation error", users |-> us]
    ELSE IF \E i \in DOMAIN us : us[i].email = register_data.email
    THEN [kind |-> "BAD_REQUEST", detail |-> "Email already registered", users |-> us]
    ELSE IF \E i \in DOMAIN us : us[i].username = register_data.username
    THEN [kind |-> "BAD_REQUEST", detail |-> "Username already taken", users |-> us]
    ELSE [kind |-> "OK", detail |-> "",
          users |-> Append(us, RegisteredUser(register_data.email, register_data.username,
                                              register_data.role, register_data.tier))]

Register(register_data) ==
    LET r == register_user(users, register_data)
    IN  /\ r.kind = "OK" => Len(users) < MaxUsers
        /\ result' = Result("register", 0, r.kind, r.detail,
                            IF r.kind = "OK" THEN Len(users) + 1 ELSE 0, register_data)
        /\ users' = r.users
        /\ UNCHANGED <<projects, leads, messages, documents, files, inflight>>

RegisterInputs ==
    [email : {"a@x", "b@x", "c@x"},
     username : {"a", "b"},
     role : {"developer", "investor", "agency", "buyer", "admin", "root"},
     tier : {None},
     accepted_non_circumvention : BOOLEAN]

InitRegister ==
    /\ users = <<RegisteredUser("a@x", "a", "developer", None)>>
    /\ projects = <<>>
    /\ leads = <<>>
    /\ messages = <<>>
    /\ documents = <<>>
    /\ files = {}
    /\ inflight = <<>>
    /\ result = NoResult

NextRegister == \E register_data \in RegisterInputs : Register(register_data)

SpecRegister == InitRegister /\ [][NextRegister]_vars

\* C30 (registration never yields admin): every user created by register_user
\* has role developer, investor, agency or buyer, and a registration that
\* names another role creates no user
C30_NoAdminByRegistration ==
    /\ \A u \in DOMAIN users : users[u].role \in {"developer", "investor", "agency", "buyer"}
    /\ (result.op = "register"
        /\ result.args.role \notin {"developer", "investor", "agency", "buyer"})
       => result.kind # "OK"

====
